---- MODULE Spec2Model ----
(***************************************************************************)
(* Model of PlexExtrasCollection.py: CommentaryCollection resolves its     *)
(* settings, checks the connection, resolves a library section, lists the  *)
(* library, hydrates the items in groups of 50 and synchronises the        *)
(* membership of one collection with the "has local extras" flag.          *)
(*                                                                         *)
(* Python values that may be None are records: None, PyStr(s), PyInt(i),   *)
(* PyBool(b).  A guid is a sequence of characters so that startswith is a  *)
(* real prefix test.  The Plex server is the environment: its library is   *)
(* the variable library, its answers to failed requests are chosen with \E.*)
(***************************************************************************)
EXTENDS Integers, Sequences, FiniteSets, TLC

VARIABLES
    pc,              \* position of the process: init, run, section, list, scan, post, done
    result,          \* how run() ended: none, invalid, noconn, nolisting, crashed, completed
    runNo,           \* 1 for the first run of the script, 2 for the run that follows it
    configExists,    \* config.yml is next to the script
    configFile,      \* the keys of config.yml (None when the key is missing)
    cmdArgs,         \* the argparse namespace
    token, host, section_id, collection_name, no_delete, valid,
    prompted,        \* the keys for which input() was called by get_config_value
    section_type,
    sectionRet,      \* what get_section returned: unset, None, section
    library,         \* the server's items, in listing order
    root,            \* the library listing held by run()
    groups,          \* the groups run() built from root
    processed,       \* run()'s counter of groups handed to process_item_group
    metadataItems,   \* what the last get_metadata returned: unset, ok, None, False
    mediaItems,      \* the insertion-ordered dict, as a sequence of entries
    calls,           \* the set_collections calls of this run, in order
    added, removed,  \* post_process's two lists
    reqs             \* the GET requests of this run, in order

vars == <<pc, result, runNo, configExists, configFile, cmdArgs, token, host,
          section_id, collection_name, no_delete, valid, prompted, section_type,
          sectionRet, library, root, groups, processed, metadataItems,
          mediaItems, calls, added, removed, reqs>>

settingsVars == <<token, host, section_id, collection_name, no_delete, valid, prompted>>
scanVars == <<root, groups, processed, metadataItems, mediaItems>>
outVars == <<calls, added, removed>>
inputVars == <<configExists, configFile, cmdArgs>>

\* ---------------------------------------------------------------- values
None == [t |-> "None"]
PyStr(s) == [t |-> "str", s |-> s]
PyInt(i) == [t |-> "int", i |-> i]
PyBool(b) == [t |-> "bool", b |-> b]

Keys == {"token", "host", "section", "collection", "no_delete"}

Digits == <<"0", "1", "2", "3", "4", "5", "6", "7", "8", "9">>

\* str.isnumeric() on the one-character strings the model uses
IsNumeric(s) == \E d \in 1..Len(Digits) : Digits[d] = s

\* int(s) for a numeric one-character string
IntOf(s) == (CHOOSE d \in 1..Len(Digits) : Digits[d] = s) - 1

DefaultHost == "http://localhost:32400"
DefaultCollection == "Movies with Extras"
TokenPrompt == "Enter your Plex token"

\* ---------------------------------------------------------------- bounds
MaxItems == 2

GroupSize == 50

\* ------------------------------------------------- get_config_value (65-88)
\* lines 70-75 with the config-file value returned even when the command line
\* gives one
GetConfigValueConfigFirst(config, cmd_args, key, default, prompt, typed) ==
    IF config[key] # None
    THEN [value |-> config[key], prompted |-> FALSE, error |-> FALSE]
    ELSE IF cmd_args[key] # None
    THEN [value |-> cmd_args[key], prompted |-> FALSE, error |-> FALSE]
    ELSE IF default = None
    THEN [value |-> PyStr(""), prompted |-> FALSE, error |-> FALSE]
    ELSE IF default.t # "str"
    THEN [value |-> None, prompted |-> FALSE, error |-> TRUE]
    ELSE IF default.s # ""
    THEN [value |-> default, prompted |-> FALSE, error |-> FALSE]
    ELSE [value |-> PyStr(typed), prompted |-> TRUE, error |-> FALSE]

GetConfigValue(config, cmd_args, key, default, prompt, typed) ==
    LET cmd_arg == IF key \in DOMAIN cmd_args THEN cmd_args[key] ELSE None
    IN  IF key \in DOMAIN config /\ config[key] # None
        THEN IF cmd_arg # None
             THEN [value |-> cmd_arg, prompted |-> FALSE, error |-> FALSE]
             ELSE [value |-> config[key], prompted |-> FALSE, error |-> FALSE]
        ELSE IF cmd_arg # None
        THEN [value |-> cmd_arg, prompted |-> FALSE, error |-> FALSE]
        ELSE IF default = None
        THEN [value |-> PyStr(""), prompted |-> FALSE, error |-> FALSE]
        \* len(default) of a value that has no len() raises TypeError
        ELSE IF default.t # "str"
        THEN [value |-> None, prompted |-> FALSE, error |-> TRUE]
        ELSE IF default.s # ""
        THEN [value |-> default, prompted |-> FALSE, error |-> FALSE]
        \* both input() calls return what the user types
        ELSE [value |-> PyStr(typed), prompted |-> TRUE, error |-> FALSE]

\* lines 55-56: a numeric-looking string becomes an int
CoerceSection(v) ==
    IF v.t = "str" /\ IsNumeric(v.s) THEN PyInt(IntOf(v.s)) ELSE v

\* Python truth value of a resolved setting
Truthy(v) ==
    CASE v.t = "None" -> FALSE
      [] v.t = "bool" -> v.b
      [] v.t = "int" -> v.i # 0
      [] v.t = "str" -> v.s # ""

\* ------------------------------------------------------------ the server
\* GET /library/sections: the server's sections; keys are strings in the JSON
Sections == << [key |-> "1", type |-> "movie", title |-> "Movies"],
               [key |-> "2", type |-> "show", title |-> "TV"],
               [key |-> "3", type |-> "artist", title |-> "Music"] >>

\* guids of extras
LocalGuid == <<"f", "i", "l", "e", ":", "/", "/", "/", "m">>
NearMissGuid == <<"f", "i", "l", "e", ":", "/", "/", "m">>
RemoteGuid == <<"c", "o", "m", ".", "p">>
NoGuid == <<>>

FilePrefix == <<"f", "i", "l", "e", ":", "/", "/", "/">>

\* the values of an item's 'Extras' in a metadata response
NullExtras == [null |-> TRUE, size |-> 0, Metadata |-> <<>>]
ExtrasOf(gs) == [null |-> FALSE, size |-> Len(gs), Metadata |-> [k \in 1..Len(gs) |-> [guid |-> gs[k]]]]

ExtrasVals == { NullExtras, ExtrasOf(<<>>), ExtrasOf(<<NoGuid, NearMissGuid>>),
                ExtrasOf(<<RemoteGuid, LocalGuid>>) }

OtherTag == "Action"

\* the collection tags an item can carry on the server (<<>>: no 'Collection' key)
CollectionLists(name) == { <<>>, <<name>>, <<OtherTag>>, <<name, OtherTag, name>> }

Item(id, title, extras, tags) ==
    [ratingKey |-> id, title |-> title, grandparentTitle |-> "Show",
     parentIndex |-> 1, index |-> 1, Extras |-> extras, Collection |-> tags]

TitleChoices == {1, 2}

\* libraries of up to MaxItems items: every combination of title, extras and
\* tags, titles named in order of first appearance
SmallLibraries(name) ==
    UNION { {f \in [1..n -> TitleChoices \X ExtrasVals \X CollectionLists(name)] :
                \A i \in 1..n : f[i][1] <= i} : n \in 0..MaxItems }

\* libraries large enough for several groups: distinct titles, the items at odd
\* and at even positions alike
BigSizes == {49, 50, 51, 100}

BigLibraries(name) ==
    { [i \in 1..n |-> IF i % 2 = 1 THEN <<i, p[1], p[2]>> ELSE <<i, q[1], q[2]>>] :
        n \in BigSizes,
        p \in ExtrasVals \X {<<>>, <<name>>, <<OtherTag>>},
        q \in {ExtrasOf(<<>>), ExtrasOf(<<LocalGuid>>)} \X {<<>>, <<name, OtherTag>>} }

MakeLibrary(f) == [i \in 1..Len(f) |-> Item(i, f[i][1], f[i][2], f[i][3])]

ServerItem(lib, id) == lib[CHOOSE k \in 1..Len(lib) : lib[k].ratingKey = id]

\* --------------------------------------------- process_item_group (208-236)
StartsWith(s, p) == Len(s) >= Len(p) /\ SubSeq(s, 1, Len(p)) = p

\* line 232 with the prefix one slash short
IsLocalExtraShortPrefix(extra) ==
    extra.guid # NoGuid /\ StartsWith(extra.guid, SubSeq(FilePrefix, 1, Len(FilePrefix) - 1))

\* line 232: extra['guid'] and extra['guid'].startswith('file:///')
IsLocalExtra(extra) ==
    extra.guid # NoGuid /\ StartsWith(extra.guid, FilePrefix)

\* lines 231-234
HasLocalExtras(extras) ==
    \E k \in 1..Len(extras.Metadata) : IsLocalExtra(extras.Metadata[k])

\* lines 223-225: the key of the entry; the episode form carries the same
\* four fields as the formatted string
MediaTitle(metadata, stype) ==
    IF stype = "show"
    THEN <<metadata.grandparentTitle, metadata.parentIndex, metadata.index, metadata.title>>
    ELSE <<metadata.title>>

\* lines 226-236: the entry written for one returned item
Entry(metadata, stype) ==
    LET extras == metadata.Extras
        fresh == [title |-> MediaTitle(metadata, stype), collections |-> <<>>,
                  id |-> metadata.ratingKey, has_extras |-> FALSE]
    IN  IF extras.null \/ extras.size = 0
        THEN fresh
        ELSE [fresh EXCEPT !.has_extras = HasLocalExtras(extras),
                           !.collections = metadata.Collection]

\* self.mediaItems[media_title] = ...: a dict keeps the position of a key it has
PutEntry(mi, e) ==
    IF \E k \in 1..Len(mi) : mi[k].title = e.title
    THEN [mi EXCEPT ![CHOOSE k \in 1..Len(mi) : mi[k].title = e.title] = e]
    ELSE Append(mi, e)

RECURSIVE ProcessMetadata(_, _, _, _)
\* lines 218-236: the loop over metadataItems, items lo..hi in order; st carries
\* the dict and the list (a range of several items is done as its first half
\* followed by its second half, which keeps the evaluation shallow)
ProcessMetadata(st, lo, hi, stype) ==
    IF lo > hi \/ lo > Len(st.metadataItems) THEN st
    ELSE IF lo = hi
    THEN [st EXCEPT !.mediaItems = PutEntry(@, Entry(st.metadataItems[lo], stype))]
    ELSE LET mid == (lo + hi) \div 2
         IN  ProcessMetadata(ProcessMetadata(st, lo, mid, stype), mid + 1, hi, stype)

Min(a, b) == IF a < b THEN a ELSE b

\* line 112: [root[i:min(item_count, i + 50)] for i in range(0, item_count, 50)]
Groups(r) ==
    [g \in 1..((Len(r) + GroupSize - 1) \div GroupSize) |->
        SubSeq(r, (g - 1) * GroupSize + 1, Min(Len(r), g * GroupSize))]

\* lines 209-211: the first item's key followed by the others' rating keys
GroupKey(group) ==
    [k \in 1..Len(group) |-> IF k = 1 THEN group[1].key ELSE group[k].ratingKey]

\* the server's answer to a metadata request that succeeds: one item per key
\* asked for, in that order, each with the 'Extras' that line 226 indexes
MetadataResponse(lib, key) == [k \in 1..Len(key) |-> ServerItem(lib, key[k])]

\* the server's answer to a library listing that succeeds
ListingResponse(lib) == [k \in 1..Len(lib) |-> [key |-> lib[k].ratingKey, ratingKey |-> lib[k].ratingKey]]

\* ------------------------------------------------- post_process (250-291)
\* line 276 with the name put first
AddedListPrepend(collections, name) == <<name>> \o collections

\* line 276: collections.append(self.collection_name)
AddedList(collections, name) == Append(collections, name)

\* line 272 dropping the tags after the name as well
RemovedListTruncate(collections, name) ==
    LET first == CHOOSE k \in 1..Len(collections) :
                    collections[k] = name /\ \A j \in 1..(k - 1) : collections[j] # name
    IN  SubSeq(collections, 1, first - 1)

\* line 272: [collection for collection in collections if collection != name]
RemovedList(collections, name) ==
    LET keep(c) == c # name IN SelectSeq(collections, keep)

InList(x, list) == \E k \in 1..Len(list) : list[k] = x

\* lines 294-305: the PUT replaces the item's whole tag list on the server
SetCollections(lib, id, collections) ==
    IF \E k \in 1..Len(lib) : lib[k].ratingKey = id
    THEN [lib EXCEPT ![CHOOSE k \in 1..Len(lib) : lib[k].ratingKey = id].Collection = collections]
    ELSE lib

\* lines 267/275 with the membership test lost: every item with extras is added
ClassifyNoMembership(has_extras, collections, name) ==
    IF has_extras THEN "add"
    ELSE IF InList(name, collections) THEN "remove" ELSE "none"

\* lines 267-278: what post_process does with one entry
Classify(has_extras, collections, name) ==
    IF InList(name, collections)
    THEN IF has_extras THEN "keep" ELSE "remove"
    ELSE IF has_extras THEN "add" ELSE "none"

\* lines 265-278: one iteration of the loop; st carries the run's state
PostStep(st, k, name, nodelete) ==
    LET e == st.mediaItems[k]
        what == Classify(e.has_extras, e.collections, name)
    IN  CASE what = "remove" ->
               IF ~nodelete
               THEN LET cs == RemovedList(e.collections, name)
                    IN  [st EXCEPT !.calls = Append(@, [id |-> e.id, collections |-> cs]),
                                   !.library = SetCollections(@, e.id, cs),
                                   !.removed = Append(@, e.title)]
               ELSE [st EXCEPT !.removed = Append(@, e.title)]
          [] what = "add" ->
               LET cs == AddedList(e.collections, name)
               IN  [st EXCEPT !.mediaItems[k].collections = cs,
                              !.calls = Append(@, [id |-> e.id, collections |-> cs]),
                              !.library = SetCollections(@, e.id, cs),
                              !.added = Append(@, e.title)]
          [] OTHER -> st

RECURSIVE PostLoop(_, _, _, _, _)
\* lines 264-278: the loop over self.mediaItems.keys(), entries lo..hi in order
\* (a range of several entries is done as its first half followed by its second)
PostLoop(st, lo, hi, name, nodelete) ==
    IF lo > hi \/ lo > Len(st.mediaItems) THEN st
    ELSE IF lo = hi THEN PostStep(st, lo, name, nodelete)
    ELSE LET mid == (lo + hi) \div 2
         IN  PostLoop(PostLoop(st, lo, mid, name, nodelete), mid + 1, hi, name, nodelete)

\* ------------------------------------------------------------- the inputs
AllNone == [k \in Keys |-> None]

\* what the user may type at a get_config_value prompt
TypedInputs == {"typed"}

\* argparse: store_true makes no_delete False, never None, when the flag is absent
CmdArgsSets ==
    [token : {None, PyStr("cmdtok")}, host : {None, PyStr("cmdhost")},
     section : {None, PyStr("2"), PyStr("x")}, collection : {None, PyStr("CmdColl")},
     no_delete : {PyBool(FALSE), PyBool(TRUE)}]

ConfigFileSets ==
    [token : {None, PyStr("cfgtok")}, host : {None, PyStr("cfghost")},
     section : {None, PyInt(1), PyInt(3), PyInt(9)}, collection : {None, PyStr("CfgColl")},
     no_delete : {None, PyBool(TRUE)}]

\* a library of two items for the runs that vary the settings
TinyLibrary ==
    MakeLibrary(<< <<1, ExtrasOf(<<RemoteGuid>>), <<DefaultCollection, "CfgColl", "CmdColl">> >>,
                   <<2, ExtrasOf(<<LocalGuid>>), <<OtherTag>> >> >>)

InitRest ==
    /\ pc = "init" /\ result = "none" /\ runNo = 1
    /\ token = None /\ host = None /\ section_id = None /\ collection_name = None
    /\ no_delete = None /\ valid = FALSE /\ prompted = {}
    /\ section_type = "unset" /\ sectionRet = "unset"
    /\ root = <<>> /\ groups = <<>> /\ processed = 0 /\ metadataItems = "unset"
    /\ mediaItems = <<>> /\ calls = <<>> /\ added = <<>> /\ removed = <<>>
    /\ reqs = <<>>

\* the settings are fixed (config.yml, when there is one, gives the token and
\* section 1), the library varies
Init ==
    /\ configExists \in BOOLEAN
    /\ configFile = IF configExists
                    THEN [AllNone EXCEPT !["token"] = PyStr("cfgtok"), !["section"] = PyInt(1)]
                    ELSE AllNone
    /\ \E nd \in BOOLEAN : cmdArgs = [AllNone EXCEPT !["no_delete"] = PyBool(nd)]
    /\ \E f \in SmallLibraries(DefaultCollection) \cup BigLibraries(DefaultCollection) :
          library = MakeLibrary(f)
    /\ InitRest

\* the library is fixed, config.yml and the command line vary
InitConfig ==
    /\ configExists \in BOOLEAN
    /\ IF configExists THEN configFile \in ConfigFileSets ELSE configFile = AllNone
    /\ cmdArgs \in CmdArgsSets
    /\ library = TinyLibrary
    /\ InitRest

\* ---------------------------------------------------------------- actions
\* __init__ and get_config, lines 14-62
GetConfig ==
    /\ pc = "init"
    /\ IF ~configExists
       THEN /\ valid' = FALSE
            /\ pc' = "run"
            /\ UNCHANGED <<token, host, section_id, collection_name, no_delete, prompted,
                           section_type, result>>
       ELSE \E typed \in TypedInputs :
            LET t == GetConfigValue(configFile, cmdArgs, "token", PyStr(""), TokenPrompt, typed)
                h == GetConfigValue(configFile, cmdArgs, "host", PyStr(DefaultHost), "", typed)
                s == GetConfigValue(configFile, cmdArgs, "section", None, "", typed)
                c == GetConfigValue(configFile, cmdArgs, "collection", PyStr(DefaultCollection), "", typed)
                n == GetConfigValue(configFile, cmdArgs, "no_delete", PyBool(FALSE), "", typed)
            IN  IF t.error \/ h.error \/ s.error \/ c.error \/ n.error
                THEN /\ pc' = "done" /\ result' = "crashed"
                     /\ UNCHANGED <<token, host, section_id, collection_name, no_delete,
                                    valid, prompted, section_type>>
                ELSE /\ token' = t.value
                     /\ host' = h.value
                     /\ section_id' = CoerceSection(s.value)
                     /\ collection_name' = c.value
                     /\ no_delete' = n.value
                     /\ prompted' = {k \in Keys :
                                       \/ k = "token" /\ t.prompted
                                       \/ k = "host" /\ h.prompted
                                       \/ k = "section" /\ s.prompted
                                       \/ k = "collection" /\ c.prompted
                                       \/ k = "no_delete" /\ n.prompted}
                     /\ section_type' = "movie"
                     /\ valid' = TRUE
                     /\ pc' = "run"
                     /\ UNCHANGED result
    /\ mediaItems' = <<>>
    /\ UNCHANGED <<runNo, inputVars, sectionRet, library, root, groups, processed,
                   metadataItems, outVars, reqs>>

\* run, lines 94-95
RunInvalid ==
    /\ pc = "run" /\ ~valid
    /\ pc' = "done" /\ result' = "invalid"
    /\ UNCHANGED <<runNo, inputVars, settingsVars, section_type, sectionRet, library,
                   scanVars, outVars, reqs>>

\* what requests.get(self.url('/')) can give
ConnOutcomes == {"200", "401", "403", "500", "ConnectionError", "OtherError"}

\* run, lines 97-98, and test_plex_connection, lines 128-151
TestPlexConnection ==
    /\ pc = "run" /\ valid
    /\ \E status \in ConnOutcomes :
          IF status = "200"
          THEN pc' = "section" /\ UNCHANGED result
          ELSE pc' = "done" /\ result' = "noconn"
    /\ reqs' = Append(reqs, "root")
    /\ UNCHANGED <<runNo, inputVars, settingsVars, section_type, sectionRet, library,
                   scanVars, outVars>>

IsMedia(section) == section.type \in {"movie", "show"}

\* lines 162-170: the section the loop returns, if any
DirectHit(find) ==
    {k \in 1..Len(Sections) :
        /\ find.t = "int"
        /\ IntOf(Sections[k].key) = find.i
        /\ IsMedia(Sections[k])}

\* what the user ends up typing at the menu: a listed key, or -1
MenuInputs == {"-1"} \cup {Sections[k].key : k \in {j \in 1..Len(Sections) : IsMedia(Sections[j])}}

SectionOfKey(key) == Sections[CHOOSE k \in 1..Len(Sections) : Sections[k].key = key]

\* run, line 100 (the returned section is dropped), and get_section, lines 154-192
GetSection ==
    /\ pc = "section"
    /\ reqs' = Append(reqs, "sections")
    /\ pc' = "list"
    /\ \E ok \in BOOLEAN, choice \in MenuInputs :
          IF ~ok
          THEN sectionRet' = "None" /\ UNCHANGED <<section_id, section_type>>
          ELSE IF DirectHit(section_id) # {}
          THEN /\ section_type' = Sections[CHOOSE k \in DirectHit(section_id) : TRUE].type
               /\ sectionRet' = "section"
               /\ UNCHANGED section_id
          ELSE IF choice = "-1"
          THEN sectionRet' = "None" /\ UNCHANGED <<section_id, section_type>>
          ELSE /\ section_id' = PyInt(IntOf(choice))
               /\ section_type' = SectionOfKey(choice).type
               /\ sectionRet' = "section"
    /\ UNCHANGED <<runNo, inputVars, token, host, collection_name, no_delete, valid,
                   prompted, library, scanVars, outVars, result>>

\* the server lists a section when the id names one of its sections of the type asked for
Listable(id, stype) ==
    /\ id.t = "int"
    /\ \E k \in 1..Len(Sections) : IntOf(Sections[k].key) = id.i /\ Sections[k].type = stype

\* run, lines 102-113, and get_all_items, lines 196-205
GetAllItems ==
    /\ pc = "list"
    /\ reqs' = Append(reqs, "listing")
    /\ \E ok \in BOOLEAN :
          LET data == IF ok /\ Listable(section_id, section_type)
                      THEN ListingResponse(library) ELSE <<>>
          IN  /\ root' = data
              /\ IF data = <<>>
                 THEN pc' = "done" /\ result' = "nolisting" /\ UNCHANGED <<groups, processed>>
                 ELSE pc' = "scan" /\ groups' = Groups(data) /\ processed' = 0 /\ UNCHANGED result
    /\ UNCHANGED <<runNo, inputVars, settingsVars, section_type, sectionRet, library,
                   metadataItems, mediaItems, outVars>>

\* get_metadata, lines 239-247, over get_json_response, lines 308-323
FetchOutcomes == {"ok", "status", "json", "exception"}

GetMetadata(outcome) ==
    CASE outcome = "ok" -> "ok"
      [] outcome \in {"status", "json"} -> "None"
      [] outcome = "exception" -> "False"

\* one iteration of run's loop, lines 114-117, and process_item_group, lines 208-236
ProcessItemGroup ==
    /\ pc = "scan" /\ processed < Len(groups)
    /\ processed' = processed + 1
    /\ reqs' = Append(reqs, "metadata")
    /\ \E outcome \in FetchOutcomes :
          LET group == groups[processed + 1]
              got == GetMetadata(outcome)
          IN  /\ metadataItems' = got
              /\ IF got # "ok"
                 \* line 217 indexes None or False: TypeError, nothing catches it
                 THEN pc' = "done" /\ result' = "crashed" /\ UNCHANGED mediaItems
                 ELSE /\ mediaItems' = ProcessMetadata(
                                          [mediaItems |-> mediaItems,
                                           metadataItems |-> MetadataResponse(library, GroupKey(group))],
                                          1, Len(group), section_type).mediaItems
                      /\ pc' = IF processed + 1 = Len(groups) THEN "post" ELSE "scan"
                      /\ UNCHANGED result
    /\ UNCHANGED <<runNo, inputVars, settingsVars, section_type, sectionRet, library,
                   root, groups, outVars>>

\* run, line 125, and post_process, lines 250-291
PostProcess ==
    /\ pc = "post"
    /\ LET st == PostLoop([mediaItems |-> mediaItems, calls |-> <<>>, added |-> <<>>,
                           removed |-> <<>>, library |-> library],
                          1, Len(mediaItems), collection_name.s, Truthy(no_delete))
       IN  /\ mediaItems' = st.mediaItems
           /\ calls' = st.calls
           /\ added' = st.added
           /\ removed' = st.removed
           /\ library' = st.library
    /\ pc' = "done" /\ result' = "completed"
    /\ UNCHANGED <<runNo, inputVars, settingsVars, section_type, sectionRet,
                   root, groups, processed, metadataItems, reqs>>

\* the script is started again after a run that completed: a new process with
\* the same config.yml and command line, against the library the first run left
Rerun ==
    /\ pc = "done" /\ result = "completed" /\ runNo = 1
    /\ runNo' = 2
    /\ pc' = "init" /\ result' = "none"
    /\ token' = None /\ host' = None /\ section_id' = None /\ collection_name' = None
    /\ no_delete' = None /\ valid' = FALSE /\ prompted' = {}
    /\ section_type' = "unset" /\ sectionRet' = "unset"
    /\ root' = <<>> /\ groups' = <<>> /\ processed' = 0 /\ metadataItems' = "unset"
    /\ mediaItems' = <<>> /\ calls' = <<>> /\ added' = <<>> /\ removed' = <<>>
    /\ reqs' = <<>>
    /\ UNCHANGED <<inputVars, library>>

Next ==
    \/ GetConfig
    \/ RunInvalid
    \/ TestPlexConnection
    \/ GetSection
    \/ GetAllItems
    \/ ProcessItemGroup
    \/ PostProcess
    \/ Rerun

Spec == Init /\ [][Next]_vars

SpecConfig == InitConfig /\ [][Next]_vars

\* ------------------------------------------------------------ properties
\* The properties read the server and the inputs on their own terms, not
\* through the operators that model the code.

\* the guid begins with file:///
LocalFile(guid) ==
    /\ Len(guid) >= 8
    /\ guid[1] = "f" /\ guid[2] = "i" /\ guid[3] = "l" /\ guid[4] = "e"
    /\ guid[5] = ":" /\ guid[6] = "/" /\ guid[7] = "/" /\ guid[8] = "/"

\* the server item has at least one local extra
LocalExtrasOnServer(item) ==
    \E j \in 1..Len(item.Extras.Metadata) : LocalFile(item.Extras.Metadata[j].guid)

Tagged(item, name) == \E j \in 1..Len(item.Collection) : item.Collection[j] = name

Count(list, x) == Cardinality({j \in 1..Len(list) : list[j] = x})

Without(list, x) == LET other(c) == c # x IN SelectSeq(list, other)

CallsFor(cs, id) == {j \in 1..Len(cs) : cs[j].id = id}

Completed == pc = "done" /\ result = "completed"

PostProcessStep == pc = "post" /\ pc' = "done"

Target == collection_name.s

\* C1 (as claimed): in the run's post_process, every server item tagged with
\* the target name and without local extras gets, with delete-suppression off,
\* a set_collections call whose list lacks the name; with delete-suppression
\* on it gets no call, keeps its tags and is in the removed list.
Cex_C1 ==
    [][PostProcessStep =>
        \A k \in 1..Len(library) :
            (Tagged(library[k], Target) /\ ~LocalExtrasOnServer(library[k])) =>
                IF ~Truthy(no_delete)
                THEN \E j \in CallsFor(calls', library[k].ratingKey) :
                        Count(calls'[j].collections, Target) = 0
                ELSE /\ CallsFor(calls', library[k].ratingKey) = {}
                     /\ library'[k] = library[k]
                     /\ \E j \in 1..Len(removed') : removed'[j] = <<library[k].title>>]_vars

Thm_C3 ==
    /\ [](runNo = 2 => /\ calls = <<>> /\ added = <<>>
                       /\ (no_delete # None /\ ~Truthy(no_delete) => removed = <<>>))
    /\ [][PostProcessStep =>
            \A k \in 1..Len(library) :
                (Tagged(library[k], Target) <=> LocalExtrasOnServer(library[k])) =>
                    /\ library'[k] = library[k]
                    /\ CallsFor(calls', library[k].ratingKey) = {}]_vars

\* the second run completed on a library in which the first run had added an
\* item (no library starts with ["Action", target]) and removed another
Wit_C3 ==
    /\ runNo = 2 /\ Completed /\ ~Truthy(no_delete)
    /\ \E k \in 1..Len(library) : library[k].Collection = <<OtherTag, DefaultCollection>>
    /\ \E k \in 1..Len(library) :
          /\ library[k].Extras = ExtrasOf(<<NoGuid, NearMissGuid>>)
          /\ ~Tagged(library[k], DefaultCollection)

\* C4: every entry's has_extras flag is true exactly when the item it records
\* (by id) has an extra whose guid begins with file:///; null extras, no extras
\* and only non-local extras give false.
Thm_C4 ==
    \A k \in 1..Len(mediaItems) :
        mediaItems[k].has_extras <=> LocalExtrasOnServer(ServerItem(library, mediaItems[k].id))

\* one entry recorded true, another recorded false although it has extras
\* (a guid missing and a guid beginning with file:// only)
Wit_C4 ==
    /\ pc = "post"
    /\ \E k \in 1..Len(mediaItems) : mediaItems[k].has_extras
    /\ \E k \in 1..Len(mediaItems) :
          /\ ~mediaItems[k].has_extras
          /\ ServerItem(library, mediaItems[k].id).Extras = ExtrasOf(<<NoGuid, NearMissGuid>>)

RECURSIVE Flatten(_, _)
Flatten(gs, n) == IF n = 0 THEN <<>> ELSE Flatten(gs, n - 1) \o gs[n]

\* C5 (as claimed): the groups are consecutive, of at most 50 items, and
\* concatenate to the listing; once every group is hydrated the dict holds one
\* entry per listed item, in listing order.
Cex_C5 ==
    pc \in {"scan", "post"} =>
        /\ Flatten(groups, Len(groups)) = root
        /\ \A g \in 1..Len(groups) : Len(groups[g]) \in 1..GroupSize
        /\ pc = "post" =>
              /\ Len(mediaItems) = Len(root)
              /\ \A k \in 1..Len(root) : mediaItems[k].id = root[k].ratingKey

\* C6 (as claimed): a metadata request that fails does not end the run: the
\* run goes on to the other groups and to post_process.
Cex_C6 ==
    metadataItems \in {"None", "False"} => (pc # "done" \/ result = "completed")

InReqs(kind) == \E j \in 1..Len(reqs) : reqs[j] = kind

\* C7 (as claimed): a fatal failure ends the run where it occurs: no request
\* without config.yml, no section listing after a failed connection check, no
\* library listing when the section is not resolved, no metadata request after
\* an empty or failed listing, and no set_collections call in any of these.
Cex_C7 ==
    /\ ~configExists => reqs = <<>> /\ calls = <<>>
    /\ result = "noconn" => ~InReqs("sections") /\ calls = <<>>
    /\ sectionRet = "None" => ~InReqs("listing") /\ calls = <<>>
    /\ result = "nolisting" => ~InReqs("metadata") /\ calls = <<>>

FlagGiven(key) ==
    IF key = "no_delete" THEN cmdArgs[key] = PyBool(TRUE) ELSE cmdArgs[key] # None

Resolved(key) ==
    CASE key = "token" -> token
      [] key = "host" -> host
      [] key = "section" -> section_id
      [] key = "collection" -> collection_name
      [] key = "no_delete" -> no_delete

\* what the file or the command line gives for the key, after lines 55-56
AsRead(key, v) ==
    IF key = "section" /\ v.t = "str" /\ v.s \in {"0", "1", "2", "3", "4", "5", "6", "7", "8", "9"}
    THEN PyInt(CHOOSE i \in 0..9 : Digits[i + 1] = v.s)
    ELSE v

HardDefault(key) ==
    CASE key = "host" -> PyStr(DefaultHost)
      [] key = "collection" -> PyStr(DefaultCollection)
      [] key = "section" -> PyStr("")
      [] OTHER -> None

Cex_C9 ==
    (/\ configExists /\ configFile["no_delete"] = PyBool(TRUE)
     /\ cmdArgs["no_delete"] = PyBool(FALSE) /\ pc # "init") =>
        /\ no_delete = PyBool(TRUE)
        /\ \A j \in 1..Len(calls) : Count(calls[j].collections, Target) > 0

NoDuplicateIds(cs) == \A i, j \in 1..Len(cs) : cs[i].id = cs[j].id => i = j

\* C10: the server's items change only in post_process, after every group is
\* scanned; an item gets at most one call in a run; the list submitted for an
\* item is the list the server holds for it with the target name appended or
\* filtered out, and nothing but its tag list changes.
Thm_C10 ==
    /\ [](calls # <<>> => pc = "done" /\ processed = Len(groups) /\ NoDuplicateIds(calls))
    /\ [][/\ Len(library') = Len(library)
          /\ \A k \in 1..Len(library) :
                /\ library'[k] # library[k] => PostProcessStep
                /\ [library'[k] EXCEPT !.Collection = library[k].Collection] = library[k]
          /\ PostProcessStep =>
                \A j \in 1..Len(calls') :
                    LET before == ServerItem(library, calls'[j].id).Collection
                        sent == calls'[j].collections
                    IN  /\ \/ sent = before \o <<Target>>
                           \/ sent = Without(before, Target)
                        /\ Without(sent, Target) = Without(before, Target)
                        /\ ServerItem(library', calls'[j].id).Collection = sent]_vars

\* a run removed the target name from [target, "Action", target] and added it
\* to another item
Wit_C10 ==
    /\ Completed
    /\ \E j \in 1..Len(calls) : calls[j].collections = <<OtherTag>>
    /\ \E j \in 1..Len(calls) : Count(calls[j].collections, DefaultCollection) = 1

====
